---- MODULE Spec2Model ----
(***************************************************************************)
(* The reliable stream of sosistab2: the per-stream state machine          *)
(* (StreamState), the sender-side ledger (Inflight), and the user-facing   *)
(* handle (Stream) over the shared StreamQueues.                           *)
(*                                                                         *)
(* Bytes are identified by their position in the sending user's write      *)
(* sequence: a run of bytes is a chunk <<lo, hi>> (positions lo..hi-1) and *)
(* a byte buffer is a sequence of chunks in which adjacent chunks that     *)
(* continue each other are merged.  The code never looks inside a payload, *)
(* so positions are all that ordering, duplication and loss can be about.  *)
(*                                                                         *)
(* Every action is one critical section of the queue mutex or one call of  *)
(* the multiplex (inject_incoming, tick).                                  *)
(***************************************************************************)
EXTENDS Integers, Sequences, FiniteSets, TLC

(* ------------------------------------------------------------------ *)
(* Program constants                                                   *)
(* ------------------------------------------------------------------ *)
MSS == 1000
ReadCap == 1000000
WriteCap == 1000000
MaxBackoff == 60
\* durations, in seconds (the unit of the clock)
IdleSecs == 1000
ClosedSecs == 30
SynResendSecs == 1

(* ------------------------------------------------------------------ *)
(* Bounds of the model                                                 *)
(* ------------------------------------------------------------------ *)
\* the wall clock stops advancing here
MaxClock == 1
\* messages waiting in incoming_queue
MaxQueue == 2
\* user writes per stream
MaxWrites == 1
\* messages waiting in incoming_queue between two ticks of a piped stream
PipeQueue == 1
\* highest Data seqno the environment injects
MaxSeq == 2
MaxRetrans == 2

Peers == {"a", "b"}
Other(p) == IF p = "a" THEN "b" ELSE "a"
\* a handle and one clone of it
HandleIds == {1, 2}
StreamId == "sid"

Min2(x, y) == IF x <= y THEN x ELSE y
Max2(x, y) == IF x >= y THEN x ELSE y
SetMin(S) == CHOOSE x \in S : \A y \in S : x <= y
SetMax(S) == CHOOSE x \in S : \A y \in S : x >= y

(* ------------------------------------------------------------------ *)
(* Byte buffers (VecDeque<u8>) as sequences of chunks                  *)
(* ------------------------------------------------------------------ *)
ChunkLen(c) == c[2] - c[1]

RECURSIVE BufLen(_)
BufLen(s) == IF s = <<>> THEN 0 ELSE ChunkLen(Head(s)) + BufLen(Tail(s))

\* push the bytes of chunk c at the back
BufPush(s, c) ==
    IF ChunkLen(c) <= 0 THEN s
    ELSE IF s # <<>> /\ s[Len(s)][2] = c[1]
         THEN [s EXCEPT ![Len(s)] = <<s[Len(s)][1], c[2]>>]
         ELSE Append(s, c)

RECURSIVE BufCat(_, _)
BufCat(s, t) == IF t = <<>> THEN s ELSE BufCat(BufPush(s, Head(t)), Tail(t))

\* the first n bytes
RECURSIVE BufTake(_, _)
BufTake(s, n) ==
    IF n <= 0 \/ s = <<>> THEN <<>>
    ELSE IF ChunkLen(Head(s)) <= n
         THEN <<Head(s)>> \o BufTake(Tail(s), n - ChunkLen(Head(s)))
         ELSE << <<Head(s)[1], Head(s)[1] + n>> >>

\* all but the first n bytes
RECURSIVE BufDrop(_, _)
BufDrop(s, n) ==
    IF n <= 0 \/ s = <<>> THEN s
    ELSE IF ChunkLen(Head(s)) <= n
         THEN BufDrop(Tail(s), n - ChunkLen(Head(s)))
         ELSE << <<Head(s)[1] + n, Head(s)[2]>> >> \o Tail(s)

\* <VecDeque<u8> as Read>::read: copies from the front slice of the ring
\* buffer only, so it returns between 1 and min(buflen, len) bytes of a
\* non-empty buffer; cut > 0 is the length of the front slice when the ring
\* has wrapped there.
VecRead(s, buflen, cut) ==
    LET full == Min2(buflen, BufLen(s))
        n == IF cut > 0 /\ cut < full THEN cut ELSE full
    IN [n |-> n, bytes |-> BufTake(s, n), rest |-> BufDrop(s, n)]

\* <VecDeque<u8> as Write>::write: extends by the whole of buf
VecWrite(s, chunk) == BufPush(s, chunk)

(* ------------------------------------------------------------------ *)
(* Messages (pipe_pool::Message::Rel)                                  *)
(* ------------------------------------------------------------------ *)
Rel(kind, stream_id, seqno, payload) ==
    [kind |-> kind, stream_id |-> stream_id, seqno |-> seqno, payload |-> payload]

\* additional_data.as_bytes(): five bytes that are no stream bytes
AdditionalBytes == << <<-5, 0>> >>
\* Vec::<u64>::new().stdcode(): the one-byte encoding of the empty list
EncodedEmptyList == << <<-6, -5>> >>
\* Default::default() of Bytes
EmptyBytes == <<>>

(* ------------------------------------------------------------------ *)
(* Reorderer<Bytes>: seqno -> payload with a cursor                    *)
(* ------------------------------------------------------------------ *)
ReordererCap == 1024

ReordererDefault == [next |-> 0, pkts |-> <<>>]

\* pkts is a function from the buffered seqnos to their payloads
ReordererInsert(r, seqno, payload) ==
    IF seqno < r.next \/ seqno \in DOMAIN r.pkts
       \/ Cardinality(DOMAIN r.pkts) >= ReordererCap
    THEN r
    ELSE [r EXCEPT !.pkts =
            [k \in (DOMAIN r.pkts) \cup {seqno} |->
                IF k = seqno THEN payload ELSE r.pkts[k]]]

\* the contiguous run starting at the cursor, as <<seqno, payload>> pairs
RECURSIVE ReordererRun(_, _)
ReordererRun(pkts, n) ==
    IF n \in DOMAIN pkts
    THEN << <<n, pkts[n]>> >> \o ReordererRun(pkts, n + 1)
    ELSE <<>>

ReordererTake(r) ==
    LET run == ReordererRun(r.pkts, r.next)
        nxt == r.next + Len(run)
    IN [items |-> run,
        r |-> [next |-> nxt,
               pkts |-> [k \in {j \in DOMAIN r.pkts : j >= nxt} |-> r.pkts[k]]]]

(* ------------------------------------------------------------------ *)
(* Highspeed congestion control; cwnd is kept in tenths of a packet    *)
(* ------------------------------------------------------------------ *)
HighspeedK == 32

HighspeedNew == 10

Cwnd(c) == c \div 10

\* cwnd <- cwnd + min(1, k / cwnd)
HighspeedMarkAck(c) ==
    IF c <= HighspeedK * 10 THEN c + 10 ELSE c + (HighspeedK * 100) \div c

\* cwnd <- max(1, cwnd * 0.7)
HighspeedMarkLoss(c) == Max2(10, (c * 7) \div 10)

(* ------------------------------------------------------------------ *)
(* Inflight: segments (seqno -> entry) and rtos (time -> seqnos)       *)
(* ------------------------------------------------------------------ *)
\* the values RttCalculator::rto() can take in whole seconds: the RTO is
\* capped at 1 s
RtoValues == {1}

\* the counters sent and retrans only feed a log line and are left out
InflightNew == [segments |-> <<>>, rtos |-> <<>>]

FnRemove(f, k) == [x \in (DOMAIN f) \ {k} |-> f[x]]
FnPut(f, k, v) == [x \in (DOMAIN f) \cup {k} |-> IF x = k THEN v ELSE f[x]]

\* the number of segments in flight, in place of the span of their seqnos
segments_len(inf) == Cardinality(DOMAIN inf.segments)

last_minus_first(inf) ==
    IF DOMAIN inf.segments = {} THEN 0
    ELSE SetMax(DOMAIN inf.segments) - SetMin(DOMAIN inf.segments)

\* rtos.entry(retrans_time): retain the other seqnos, drop an emptied bucket
remove_rto(rtos, retrans_time, seqno) ==
    IF retrans_time \in DOMAIN rtos
    THEN LET kept == SelectSeq(rtos[retrans_time], LAMBDA v : v # seqno)
         IN IF kept = <<>> THEN FnRemove(rtos, retrans_time)
            ELSE FnPut(rtos, retrans_time, kept)
    ELSE rtos

\* rtos.entry(t).or_default().push(seqno)
push_rto(rtos, t, seqno) ==
    FnPut(rtos, t, IF t \in DOMAIN rtos THEN Append(rtos[t], seqno) ELSE <<seqno>>)

mark_acked(inf, acked_seqno) ==
    IF acked_seqno \in DOMAIN inf.segments
    THEN [inf |-> [inf EXCEPT
                     !.segments = FnRemove(inf.segments, acked_seqno),
                     !.rtos = remove_rto(inf.rtos,
                                 inf.segments[acked_seqno].retrans_time,
                                 acked_seqno)],
          found |-> TRUE]
    ELSE [inf |-> inf, found |-> FALSE]

\* mark_acked on every key below seqno, in key order; sum counts the hits
RECURSIVE mark_acked_each(_, _, _)
mark_acked_each(inf, to_remove, sum) ==
    IF to_remove = {} THEN [inf |-> inf, sum |-> sum]
    ELSE LET k == SetMin(to_remove)
             r == mark_acked(inf, k)
         IN mark_acked_each(r.inf, to_remove \ {k},
                            sum + (IF r.found THEN 1 ELSE 0))

\* a cumulative ack that also takes the segment named by the seqno
mark_acked_le(inf, seqno) ==
    mark_acked_each(inf, {k \in DOMAIN inf.segments : k <= seqno}, 0)

mark_acked_lt(inf, seqno) ==
    mark_acked_each(inf, {k \in DOMAIN inf.segments : k < seqno}, 0)

\* insert(msg) at time now with RttCalculator::rto() = rto
insert(inf, msg, now, rto) ==
    [inf EXCEPT
       !.segments = FnPut(inf.segments, msg.seqno,
                          [seqno |-> msg.seqno, retrans |-> 0, payload |-> msg,
                           retrans_time |-> now + rto, known_lost |-> FALSE]),
       !.rtos = push_rto(inf.rtos, now + rto, msg.seqno)]

\* the first seqno of the earliest bucket; some = FALSE stands for None
first_rto(inf) ==
    IF DOMAIN inf.rtos = {} THEN [some |-> FALSE, seqno |-> 0, time |-> 0]
    ELSE LET t == SetMin(DOMAIN inf.rtos)
         IN [some |-> TRUE, seqno |-> inf.rtos[t][1], time |-> t]

RECURSIVE Pow2(_)
Pow2(n) == IF n <= 0 THEN 1 ELSE 2 * Pow2(n - 1)

\* retransmit(seqno): some = FALSE (None) when the seqno is not live
retransmit(inf, seqno, now, rto) ==
    IF seqno \notin DOMAIN inf.segments
    THEN [inf |-> inf, some |-> FALSE, msg |-> Rel("Data", StreamId, seqno, <<>>)]
    ELSE LET e == inf.segments[seqno]
             n == e.retrans + 1
             new_retrans == now + rto * Min2(Pow2(n), MaxBackoff)
         IN [inf |-> [inf EXCEPT
                        !.segments = FnPut(inf.segments, seqno,
                            [e EXCEPT !.retrans = n,
                                      !.retrans_time = new_retrans,
                                      !.known_lost = FALSE]),
                        !.rtos = push_rto(remove_rto(inf.rtos, e.retrans_time, seqno),
                                          new_retrans, seqno)],
             some |-> TRUE,
             msg |-> e.payload]

\* a mark_lost that sets the flag and leaves the rtos index alone
mark_lost_keep_rto(inf, seqno) ==
    IF seqno \in DOMAIN inf.segments
    THEN [inf |-> [inf EXCEPT !.segments[seqno].known_lost = TRUE],
          found |-> TRUE]
    ELSE [inf |-> inf, found |-> FALSE]

\* mark_lost(seqno): found = FALSE when the seqno is not live
mark_lost(inf, seqno) ==
    IF seqno \in DOMAIN inf.segments
    THEN [inf |-> [inf EXCEPT
                     !.segments[seqno].known_lost = TRUE,
                     !.rtos = remove_rto(inf.rtos,
                                 inf.segments[seqno].retrans_time, seqno)],
          found |-> TRUE]
    ELSE [inf |-> inf, found |-> FALSE]

(* ------------------------------------------------------------------ *)
(* StreamState and StreamQueues                                        *)
(* ------------------------------------------------------------------ *)
StreamQueuesDefault ==
    [read_stream |-> <<>>, write_stream |-> <<>>,
     connected |-> FALSE, closed |-> FALSE]

\* next_resend is the field of Phase::SynSent; it is 0 in the other phases
new_in_phase(stream_id, phase, additional_data) ==
    [phase |-> phase,
     next_resend |-> 0,
     stream_id |-> stream_id,
     additional_data |-> additional_data,
     incoming_queue |-> <<>>,
     read_until |-> 0,
     reorderer |-> ReordererDefault,
     inflight |-> InflightNew,
     next_write_seqno |-> 0,
     congestion |-> HighspeedNew]

new_pending(stream_id, additional_data) ==
    new_in_phase(stream_id, "Pending", additional_data)

new_established(stream_id, additional_data) ==
    new_in_phase(stream_id, "Established", additional_data)

\* What one tick works on: the state, the queues, and what it has done so far
\* (messages passed to outgoing_callback, ready.notify_all calls, calls of
\* congestion.mark_ack / mark_loss, bytes appended to read_stream, a panic).
Machine(st, qs) ==
    [st |-> st, qs |-> qs, out |-> <<>>, notified |-> FALSE,
     acks |-> 0, losses |-> 0, appended |-> <<>>, panic |-> FALSE]

RECURSIVE Iterate(_, _, _)
Iterate(Op(_), x, n) == IF n <= 0 THEN x ELSE Iterate(Op, Op(x), n - 1)

\* a loop body that takes read_until from the seqno of the Data just seen
TickReadPacketLastSeen(m, packet, gen_ack) ==
    IF BufLen(m.qs.read_stream) > ReadCap THEN [m |-> m, gen_ack |-> gen_ack]
    ELSE CASE packet.kind = "Data" ->
                [m |-> [m EXCEPT !.st.reorderer =
                          ReordererInsert(m.st.reorderer, packet.seqno, packet.payload),
                                 !.st.read_until = packet.seqno],
                 gen_ack |-> TRUE]
           [] packet.kind = "Rst" ->
                [m |-> [m EXCEPT !.st.phase = "Closed"], gen_ack |-> gen_ack]
           [] OTHER -> [m |-> m, gen_ack |-> gen_ack]

\* one iteration of the loop over incoming_queue.drain(..) in tick_read
TickReadPacket(m, packet, gen_ack) ==
    IF BufLen(m.qs.read_stream) > ReadCap THEN [m |-> m, gen_ack |-> gen_ack]
    ELSE CASE packet.kind = "Data" ->
                [m |-> [m EXCEPT !.st.reorderer =
                          ReordererInsert(m.st.reorderer, packet.seqno, packet.payload)],
                 gen_ack |-> TRUE]
           [] packet.kind = "DataAck" ->
                LET r == mark_acked_lt(m.st.inflight, packet.seqno)
                IN [m |-> [m EXCEPT !.st.inflight = r.inf,
                                    !.st.congestion =
                                        Iterate(HighspeedMarkAck, m.st.congestion, r.sum),
                                    !.acks = m.acks + r.sum],
                    gen_ack |-> gen_ack]
           [] packet.kind = "Syn" ->
                [m |-> [m EXCEPT !.out = Append(m.out,
                          Rel("SynAck", packet.stream_id, packet.seqno, packet.payload))],
                 gen_ack |-> gen_ack]
           [] packet.kind = "Rst" ->
                [m |-> [m EXCEPT !.st.phase = "Closed"], gen_ack |-> gen_ack]
           [] OTHER -> [m |-> m, gen_ack |-> gen_ack]

RECURSIVE TickReadDrain(_, _, _)
TickReadDrain(m, queue, gen_ack) ==
    IF queue = <<>> THEN [m |-> m, gen_ack |-> gen_ack]
    ELSE LET r == TickReadPacket(m, Head(queue), gen_ack)
         IN TickReadDrain(r.m, Tail(queue), r.gen_ack)

\* the loop over reorderer.take()
RECURSIVE TickReadDeliver(_, _)
TickReadDeliver(m, items) ==
    IF items = <<>> THEN m
    ELSE LET seqno == Head(items)[1]
             packet == Head(items)[2]
         IN TickReadDeliver(
              [m EXCEPT !.st.read_until = Max2(m.st.read_until, seqno),
                        !.qs.read_stream = BufCat(m.qs.read_stream, packet),
                        !.appended = BufCat(m.appended, packet),
                        !.notified = TRUE],
              Tail(items))

tick_read(m0, now) ==
    LET d == TickReadDrain([m0 EXCEPT !.st.incoming_queue = <<>>],
                           m0.st.incoming_queue, FALSE)
        t == ReordererTake(d.m.st.reorderer)
        m == TickReadDeliver([d.m EXCEPT !.st.reorderer = t.r], t.items)
    IN IF d.gen_ack
       THEN [m EXCEPT !.out = Append(m.out,
               Rel("DataAck", m.st.stream_id, m.st.read_until, EncodedEmptyList))]
       ELSE m

\* a fill loop that copies the head of write_stream without consuming it
RECURSIVE FillWindowNoPop(_, _, _, _, _)
FillWindowNoPop(m, cwnd, now, rto, cut) ==
    IF ~(last_minus_first(m.st.inflight) < cwnd) THEN m
    ELSE IF m.qs.write_stream = <<>> THEN m
    ELSE LET rd == VecRead(m.qs.write_stream, MSS, cut)
             seqno == m.st.next_write_seqno
             msg == Rel("Data", m.st.stream_id, seqno, rd.bytes)
         IN FillWindowNoPop(
              [m EXCEPT !.st.next_write_seqno = seqno + 1,
                        !.st.inflight = insert(m.st.inflight, msg, now, rto),
                        !.out = Append(m.out, msg),
                        !.notified = TRUE],
              cwnd, now, rto, cut)

\* a fill loop that goes on while the span equals the window
RECURSIVE FillWindowLeq(_, _, _, _, _)
FillWindowLeq(m, cwnd, now, rto, cut) ==
    IF ~(last_minus_first(m.st.inflight) <= cwnd) THEN m
    ELSE IF m.qs.write_stream = <<>> THEN m
    ELSE LET rd == VecRead(m.qs.write_stream, MSS, cut)
             seqno == m.st.next_write_seqno
             msg == Rel("Data", m.st.stream_id, seqno, rd.bytes)
         IN FillWindowLeq(
              [m EXCEPT !.qs.write_stream = rd.rest,
                        !.st.next_write_seqno = seqno + 1,
                        !.st.inflight = insert(m.st.inflight, msg, now, rto),
                        !.out = Append(m.out, msg),
                        !.notified = TRUE],
              cwnd, now, rto, cut)

\* the loop that fills the congestion window with new segments
RECURSIVE FillWindow(_, _, _, _, _)
FillWindow(m, cwnd, now, rto, cut) ==
    IF ~(last_minus_first(m.st.inflight) < cwnd) THEN m
    ELSE IF m.qs.write_stream = <<>> THEN m
    ELSE LET rd == VecRead(m.qs.write_stream, MSS, cut)
             seqno == m.st.next_write_seqno
             msg == Rel("Data", m.st.stream_id, seqno, rd.bytes)
         IN FillWindow(
              [m EXCEPT !.qs.write_stream = rd.rest,
                        !.st.next_write_seqno = seqno + 1,
                        !.st.inflight = insert(m.st.inflight, msg, now, rto),
                        !.out = Append(m.out, msg),
                        !.notified = TRUE],
              cwnd, now, rto, cut)

\* a write half that retransmits the first expired segment and leaves the rest
RetransmitFirstOnly(m, now, rto) ==
    LET f == first_rto(m.st.inflight)
    IN IF ~f.some THEN m
       ELSE IF ~(now >= f.time) THEN m
       ELSE LET lose == Cwnd(m.st.congestion) >= last_minus_first(m.st.inflight)
                r == retransmit(m.st.inflight, f.seqno, now, rto)
                m1 == [m EXCEPT !.st.congestion =
                                    IF lose THEN HighspeedMarkLoss(m.st.congestion)
                                    ELSE m.st.congestion,
                                !.losses = m.losses + (IF lose THEN 1 ELSE 0)]
            IN IF ~r.some THEN [m1 EXCEPT !.panic = TRUE]
               ELSE [m1 EXCEPT !.st.inflight = r.inf,
                               !.out = Append(m1.out, r.msg)]

\* the loop over inflight.first_rto()
RECURSIVE Retransmissions(_, _, _)
Retransmissions(m, now, rto) ==
    LET f == first_rto(m.st.inflight)
    IN IF ~f.some THEN m
       ELSE IF ~(now >= f.time) THEN m
       ELSE LET lose == Cwnd(m.st.congestion) >= last_minus_first(m.st.inflight)
                r == retransmit(m.st.inflight, f.seqno, now, rto)
                m1 == [m EXCEPT !.st.congestion =
                                    IF lose THEN HighspeedMarkLoss(m.st.congestion)
                                    ELSE m.st.congestion,
                                !.losses = m.losses + (IF lose THEN 1 ELSE 0)]
            IN IF ~r.some THEN [m1 EXCEPT !.panic = TRUE]
               ELSE Retransmissions(
                      [m1 EXCEPT !.st.inflight = r.inf,
                                 !.out = Append(m1.out, r.msg)],
                      now, rto)

tick_write(m, now, rto, cut) ==
    Retransmissions(FillWindow(m, Cwnd(m.st.congestion), now, rto, cut), now, rto)

retick_time(st, now) ==
    LET f == first_rto(st.inflight)
    IN IF f.some THEN f.time ELSE now + IdleSecs

\* a Closed tick that answers a whole batch with a single Rst
tick_closed_once(st, qs, now) ==
    [Machine(st, qs) EXCEPT
        !.qs.closed = TRUE,
        !.notified = TRUE,
        !.st.incoming_queue = <<>>,
        !.out = IF st.incoming_queue = <<>> THEN <<>>
                ELSE <<Rel("Rst", st.stream_id, 0, EmptyBytes)>>]
    @@ [deadline |-> now + ClosedSecs]

\* a Closed arm that takes a Syn of the peer as the start of a new connection
tick_closed_reopen(st, qs, now) ==
    [Machine(st, qs) EXCEPT
        !.qs.closed = TRUE,
        !.notified = TRUE,
        !.st.incoming_queue = <<>>,
        !.st.phase = IF \E i \in 1..Len(st.incoming_queue) :
                             st.incoming_queue[i].kind = "Syn"
                     THEN "Established" ELSE "Closed",
        !.out = [i \in 1..Len(st.incoming_queue) |->
                    Rel("Rst", st.stream_id, 0, EmptyBytes)]]
    @@ [deadline |-> now + ClosedSecs]

\* the Phase::Closed arm of tick
tick_closed(st, qs, now) ==
    [Machine(st, qs) EXCEPT
        !.qs.closed = TRUE,
        !.notified = TRUE,
        !.st.incoming_queue = <<>>,
        !.out = [i \in 1..Len(st.incoming_queue) |->
                    Rel("Rst", st.stream_id, 0, EmptyBytes)]]
    @@ [deadline |-> now + ClosedSecs]

\* a SynSent arm that sends the Syn again whenever no SynAck has come
tick_syn_sent_eager(st, qs, now) ==
    LET m == Machine(st, qs)
        syn == Rel("Syn", st.stream_id, 0, st.additional_data)
        resend == now + SynResendSecs
    IN IF \E i \in 1..Len(st.incoming_queue) : st.incoming_queue[i].kind = "SynAck"
       THEN [m EXCEPT !.st.incoming_queue = <<>>,
                      !.st.phase = "Established",
                      !.st.next_resend = 0,
                      !.qs.connected = TRUE,
                      !.notified = TRUE]
            @@ [deadline |-> now]
       ELSE [m EXCEPT !.st.incoming_queue = <<>>,
                      !.out = <<syn>>,
                      !.st.next_resend = resend]
            @@ [deadline |-> resend]

\* the Phase::SynSent arm of tick
tick_syn_sent(st, qs, now) ==
    LET m == Machine(st, qs)
        syn == Rel("Syn", st.stream_id, 0, st.additional_data)
        resend == now + SynResendSecs
    IN IF \E i \in 1..Len(st.incoming_queue) : st.incoming_queue[i].kind = "SynAck"
       THEN [m EXCEPT !.st.incoming_queue = <<>>,
                      !.st.phase = "Established",
                      !.st.next_resend = 0,
                      !.qs.connected = TRUE,
                      !.notified = TRUE]
            @@ [deadline |-> now]
       ELSE IF now >= st.next_resend
       THEN [m EXCEPT !.st.incoming_queue = <<>>,
                      !.out = <<syn>>,
                      !.st.next_resend = resend]
            @@ [deadline |-> resend]
       ELSE [m EXCEPT !.st.incoming_queue = <<>>]
            @@ [deadline |-> st.next_resend]

\* StreamState::tick at wall-clock time now, with RttCalculator::rto() = rto
\* and front-slice length cut for the reads of write_stream
tick(st, qs, now, rto, cut) ==
    LET m == Machine(st, qs)
        syn == Rel("Syn", st.stream_id, 0, st.additional_data)
        resend == now + SynResendSecs
    IN CASE st.phase = "Pending" ->
              [m EXCEPT !.out = <<syn>>,
                        !.st.phase = "SynSent",
                        !.st.next_resend = resend]
              @@ [deadline |-> resend]
         [] st.phase = "SynSent" -> tick_syn_sent(st, qs, now)
         [] st.phase = "Established" ->
              LET w == tick_write(tick_read(m, now), now, rto, cut)
                  e == IF w.qs.closed THEN [w EXCEPT !.st.phase = "Closed"] ELSE w
              IN e @@ [deadline |-> retick_time(e.st, now)]
         [] st.phase = "Closed" -> tick_closed(st, qs, now)

(* ------------------------------------------------------------------ *)
(* State                                                               *)
(* ------------------------------------------------------------------ *)
VARIABLES
    state,          \* peer -> StreamState
    queues,         \* peer -> StreamQueues (shared by the state and its handles)
    handles,        \* peer -> handle id -> Stream handle
    global_notify,  \* peer -> a signal has been sent on the global_notify channel
    net,            \* the pipe: messages in flight, each with its destination
    now,            \* the wall clock (Instant::now())
    panicked,       \* peer -> a tick has panicked
    written,        \* peer -> bytes appended to write_stream so far
    nwrites,        \* peer -> handle writes issued so far
    appended        \* peer -> the bytes appended to read_stream so far, in order

vars == <<state, queues, handles, global_notify, net, now, panicked,
          written, nwrites, appended>>

\* the sizes of the buffers handed to write
WriteSizes == {1500, 999500}
\* front-slice lengths of a wrapped ring buffer (0: not wrapped)
Cuts == {0, 400}

\* Stream::new: both ready futures count as resolved, nothing is in progress.
\* rd / wr: "idle" (resolved), "pending" (waiting on the ready event),
\* "woken" (notified, not yet polled again), "ready" (the future has resolved,
\* the queue lock is not yet taken again).
\* r_after_close / w_after_close: the operation in progress was issued when
\* closed was already true; w_over: it was issued when write_stream was over
\* the cap.  urel: "idle", or "pending" while a send_urel future of the handle
\* is being awaited.
StreamNew ==
    [alive |-> TRUE,
     rd |-> "idle", rbuf |-> 0, r_after_close |-> FALSE,
     wr |-> "idle", wbuf |-> 0, w_after_close |-> FALSE, w_over |-> FALSE,
     urel |-> "idle"]

NoHandle == [StreamNew EXCEPT !.alive = FALSE]

\* ready.notify_all(): every waiter polls its predicate again
notify_all(hs) ==
    [h \in DOMAIN hs |->
        [hs[h] EXCEPT !.rd = IF @ = "pending" THEN "woken" ELSE @,
                      !.wr = IF @ = "pending" THEN "woken" ELSE @]]

Alive(p) == {h \in HandleIds : handles[p][h].alive}

\* "a" is built by either constructor; "b", where it takes part, is the acceptor
InitWith(phases) ==
    /\ \E ph \in phases :
          state = [p \in Peers |->
                     IF p = "a" /\ ph = "Pending"
                     THEN new_pending(StreamId, AdditionalBytes)
                     ELSE new_established(StreamId, AdditionalBytes)]
    /\ queues = [p \in Peers |-> StreamQueuesDefault]
    /\ handles = [p \in Peers |-> [h \in HandleIds |->
                                     IF h = 1 THEN StreamNew ELSE NoHandle]]
    /\ global_notify = [p \in Peers |-> FALSE]
    /\ net = {}
    /\ now = 0
    /\ panicked = [p \in Peers |-> FALSE]
    /\ written = [p \in Peers |-> 0]
    /\ nwrites = [p \in Peers |-> 0]
    /\ appended = [p \in Peers |-> <<>>]

(* ------------------------------------------------------------------ *)
(* The handle (Stream)                                                 *)
(* ------------------------------------------------------------------ *)
\* a Clone that builds the new handle on queues of its own
CloneWithNewQueues(p, h, h2) ==
    /\ handles[p][h].alive
    /\ ~handles[p][h2].alive
    /\ handles' = [handles EXCEPT ![p][h2] = StreamNew]
    /\ queues' = [queues EXCEPT ![p] = StreamQueuesDefault]
    /\ UNCHANGED <<state, global_notify, net, now, panicked,
                   written, nwrites, appended>>

\* impl Clone for Stream
Clone(p, h, h2) ==
    /\ handles[p][h].alive
    /\ ~handles[p][h2].alive
    /\ handles' = [handles EXCEPT ![p][h2] = StreamNew]
    /\ UNCHANGED <<state, queues, global_notify, net, now, panicked,
                   written, nwrites, appended>>

\* Stream has no Drop impl: dropping a handle releases its futures and its
\* references, nothing else.  A handle inside poll_read / poll_write is borrowed.
DropHandle(p, h) ==
    /\ handles[p][h].alive
    /\ handles[p][h].rd # "ready"
    /\ handles[p][h].wr # "ready"
    /\ handles' = [handles EXCEPT ![p][h] = NoHandle]
    /\ UNCHANGED <<state, queues, global_notify, net, now, panicked,
                   written, nwrites, appended>>

\* Stream::shutdown
Shutdown(p, h) ==
    /\ handles[p][h].alive
    /\ handles[p][h].rd # "ready"
    /\ handles[p][h].wr # "ready"
    /\ queues' = [queues EXCEPT ![p].closed = TRUE]
    /\ global_notify' = [global_notify EXCEPT ![p] = TRUE]
    /\ handles' = [handles EXCEPT ![p] = notify_all(@)]
    /\ UNCHANGED <<state, net, now, panicked, written, nwrites, appended>>

\* Stream::send_urel: the body awaits smol::future::pending(), a future that
\* never resolves; nothing is enqueued and nothing is signalled.
SendUrel(p, h) ==
    /\ handles[p][h].alive
    /\ handles[p][h].urel = "idle"
    /\ handles' = [handles EXCEPT ![p][h].urel = "pending"]
    /\ UNCHANGED <<state, queues, global_notify, net, now, panicked,
                   written, nwrites, appended>>

\* AsyncWrite::poll_close
PollClose(p, h) ==
    /\ handles[p][h].alive
    /\ handles[p][h].rd # "ready"
    /\ handles[p][h].wr # "ready"
    /\ queues' = [queues EXCEPT ![p].closed = TRUE]
    /\ global_notify' = [global_notify EXCEPT ![p] = TRUE]
    /\ UNCHANGED <<state, handles, net, now, panicked, written, nwrites, appended>>

\* the predicate of the read future
ReadReady(qs) == qs.read_stream # <<>> \/ qs.closed

\* a write future that never waits
WriteReadyAlways(qs) == TRUE

\* the predicate of the write future
WriteReady(qs) == BufLen(qs.write_stream) <= WriteCap

\* poll_read up to the poll of the ready future: a new read (the future is
\* made anew) or a notified one (the same future is polled again)
PollRead(p, h, buflen) ==
    LET s == handles[p][h]
        fresh == s.rd = "idle"
    IN /\ s.alive
       /\ s.wr # "ready"
       /\ \/ fresh
          \/ s.rd = "woken" /\ buflen = s.rbuf
       /\ handles' = [handles EXCEPT ![p][h] =
             [s EXCEPT !.rd = IF ReadReady(queues[p]) THEN "ready" ELSE "pending",
                       !.rbuf = buflen,
                       !.r_after_close = IF fresh THEN queues[p].closed ELSE @]]
       /\ UNCHANGED <<state, queues, global_notify, net, now, panicked,
                      written, nwrites, appended>>

\* poll_read after Poll::Ready(()): lock, read_stream.read(buf), signal
PollReadReady(p, h, cut) ==
    LET s == handles[p][h]
        r == VecRead(queues[p].read_stream, s.rbuf, cut)
    IN /\ s.alive
       /\ s.rd = "ready"
       /\ queues' = [queues EXCEPT ![p].read_stream = r.rest]
       /\ global_notify' = [global_notify EXCEPT ![p] = TRUE]
       /\ handles' = [handles EXCEPT ![p][h] =
             [s EXCEPT !.rd = "idle",
                       !.rbuf = 0,
                       !.r_after_close = FALSE]]
       /\ UNCHANGED <<state, net, now, panicked, written, nwrites, appended>>

\* poll_write up to the poll of the ready future
PollWrite(p, h, len) ==
    LET s == handles[p][h]
        fresh == s.wr = "idle"
    IN /\ s.alive
       /\ s.rd # "ready"
       /\ \/ fresh
          \/ s.wr = "woken" /\ len = s.wbuf
       /\ handles' = [handles EXCEPT ![p][h] =
             [s EXCEPT !.wr = IF WriteReady(queues[p]) THEN "ready" ELSE "pending",
                       !.wbuf = len,
                       !.w_after_close = IF fresh THEN queues[p].closed ELSE @,
                       !.w_over = IF fresh THEN ~WriteReady(queues[p]) ELSE @]]
       /\ nwrites' = [nwrites EXCEPT ![p] = IF fresh THEN @ + 1 ELSE @]
       /\ UNCHANGED <<state, queues, global_notify, net, now, panicked,
                      written, appended>>

\* poll_write after Poll::Ready(()): lock, write_stream.write(buf), signal
PollWriteReady(p, h) ==
    LET s == handles[p][h]
        chunk == <<written[p], written[p] + s.wbuf>>
        ws == VecWrite(queues[p].write_stream, chunk)
    IN /\ s.alive
       /\ s.wr = "ready"
       /\ queues' = [queues EXCEPT ![p].write_stream = ws]
       /\ written' = [written EXCEPT ![p] = @ + s.wbuf]
       /\ global_notify' = [global_notify EXCEPT ![p] = TRUE]
       /\ handles' = [handles EXCEPT ![p][h] =
             [s EXCEPT !.wr = "idle",
                       !.wbuf = 0,
                       !.w_after_close = FALSE,
                       !.w_over = FALSE]]
       /\ UNCHANGED <<state, net, now, panicked, nwrites, appended>>

(* ------------------------------------------------------------------ *)
(* The multiplex side: inject_incoming, tick, the clock                *)
(* ------------------------------------------------------------------ *)
\* the payload a peer's write half gives the full segment seqno
SegmentBytes(seqno) == << <<seqno * MSS, (seqno + 1) * MSS>> >>

\* what a peer of the same implementation can send
PeerMessages ==
    {Rel("Syn", StreamId, 0, AdditionalBytes),
     Rel("SynAck", StreamId, 0, AdditionalBytes),
     Rel("Rst", StreamId, 0, EmptyBytes)}
    \cup {Rel("Data", StreamId, n, SegmentBytes(n)) : n \in 0..MaxSeq}
    \cup {Rel("DataAck", StreamId, n, EncodedEmptyList) : n \in 0..(MaxSeq + 1)}

\* StreamState::inject_incoming.  A peer acknowledges only what has been sent.
Inject(p, msg) ==
    /\ ~panicked[p]
    /\ Len(state[p].incoming_queue) < MaxQueue
    /\ msg.kind = "DataAck" => msg.seqno <= state[p].next_write_seqno
    /\ state' = [state EXCEPT ![p].incoming_queue = Append(@, msg)]
    /\ UNCHANGED <<queues, handles, global_notify, net, now, panicked,
                   written, nwrites, appended>>

\* StreamState::tick, called by the multiplex
TickStep(p, r) ==
    /\ ~panicked[p]
    /\ state' = [state EXCEPT ![p] = r.st]
    /\ queues' = [queues EXCEPT ![p] = r.qs]
    /\ handles' = [handles EXCEPT ![p] = IF r.notified THEN notify_all(@) ELSE @]
    /\ panicked' = [panicked EXCEPT ![p] = r.panic]
    /\ appended' = [appended EXCEPT ![p] = BufCat(@, r.appended)]
    /\ UNCHANGED <<global_notify, now, written, nwrites>>

\* a tick whose outgoing_callback only records the messages
Tick(p, rto, cut) ==
    /\ TickStep(p, tick(state[p], queues[p], now, rto, cut))
    /\ UNCHANGED net

\* a timer of p is running: the Syn resend or a retransmission timeout
TimerRunning(p) ==
    state[p].phase = "SynSent" \/ DOMAIN state[p].inflight.rtos # {}

\* Time passes.  While no timer runs, nothing depends on the clock, and the
\* states that differ only by a shift of time are not told apart.
AdvanceClock ==
    /\ now < MaxClock
    /\ \E p \in Peers : TimerRunning(p)
    /\ now' = now + 1
    /\ UNCHANGED <<state, queues, handles, global_notify, net, panicked,
                   written, nwrites, appended>>

(* ------------------------------------------------------------------ *)
(* One stream and a multiplex that injects what a peer can send        *)
(* ------------------------------------------------------------------ *)
Init == InitWith({"Pending", "Established"})

Next ==
    \/ \E msg \in PeerMessages : Inject("a", msg)
    \/ \E rto \in RtoValues : Tick("a", rto, 0)
    \/ Shutdown("a", 1)
    \/ SendUrel("a", 1)
    \/ AdvanceClock

Spec == Init /\ [][Next]_vars

(* ------------------------------------------------------------------ *)
(* One stream and its handles: clones, reads, writes, closes, drops    *)
(* ------------------------------------------------------------------ *)
\* what the peer sends in this scenario: the handshake reply, one segment, a reset
HandleMessages ==
    {Rel("SynAck", StreamId, 0, AdditionalBytes),
     Rel("Data", StreamId, 0, SegmentBytes(0)),
     Rel("Rst", StreamId, 0, EmptyBytes)}

\* a new write is issued only while fewer than limit writes have been issued
WriteBudget(p, h, limit) == handles[p][h].wr = "idle" => nwrites[p] < limit

NextHandle ==
    \/ \E h, h2 \in HandleIds : Clone("a", h, h2)
    \/ \E h \in HandleIds : DropHandle("a", h)
    \/ \E h \in HandleIds : Shutdown("a", h)
    \/ \E h \in HandleIds : PollClose("a", h)
    \/ \E h \in HandleIds : PollRead("a", h, 700)
    \/ \E h \in HandleIds : PollReadReady("a", h, 0)
    \/ \E h \in HandleIds : WriteBudget("a", h, MaxWrites) /\ PollWrite("a", h, 1500)
    \/ \E h \in HandleIds : PollWriteReady("a", h)
    \/ \E msg \in HandleMessages : Inject("a", msg)
    \/ \E rto \in RtoValues : Tick("a", rto, 0)

SpecHandle == Init /\ [][NextHandle]_vars

(* ------------------------------------------------------------------ *)
(* An established stream whose writers fill write_stream to the cap    *)
(* ------------------------------------------------------------------ *)
\* two writes take write_stream past the cap, MaxWrites more meet it there
NextBackpressure ==
    \/ \E h, h2 \in HandleIds : Clone("a", h, h2)
    \/ \E h \in HandleIds, n \in WriteSizes :
          WriteBudget("a", h, MaxWrites + 2) /\ PollWrite("a", h, n)
    \/ \E h \in HandleIds : PollWriteReady("a", h)
    \/ \E rto \in RtoValues, cut \in Cuts : Tick("a", rto, cut)

SpecBackpressure == InitWith({"Established"}) /\ [][NextBackpressure]_vars

(* ------------------------------------------------------------------ *)
(* Two streams joined by a pipe that reorders, duplicates and drops    *)
(* ------------------------------------------------------------------ *)
Packet(dst, msg) == [dst |-> dst, msg |-> msg]

\* a tick whose outgoing_callback hands the messages to the pipe
TickSend(p, rto, cut) ==
    LET r == tick(state[p], queues[p], now, rto, cut)
    IN /\ TickStep(p, r)
       /\ net' = net \cup {Packet(Other(p), r.out[i]) : i \in 1..Len(r.out)}

\* The pipe hands a message in flight to the multiplex of its destination,
\* which injects it.  The message stays in the pipe: it can be handed over
\* again (duplication), after messages sent later (reordering), or never (loss).
Deliver(pkt) ==
    /\ pkt \in net
    /\ ~panicked[pkt.dst]
    /\ Len(state[pkt.dst].incoming_queue) < PipeQueue
    /\ state' = [state EXCEPT ![pkt.dst].incoming_queue = Append(@, pkt.msg)]
    /\ UNCHANGED <<queues, handles, global_notify, net, now, panicked,
                   written, nwrites, appended>>

NextPipe ==
    \/ WriteBudget("a", 1, MaxWrites) /\ PollWrite("a", 1, 1500)
    \/ PollWriteReady("a", 1)
    \/ \E p \in Peers, rto \in RtoValues : TickSend(p, rto, 0)
    \/ \E pkt \in net : Deliver(pkt)
    \/ AdvanceClock

SpecPipe == Init /\ [][NextPipe]_vars

(* ------------------------------------------------------------------ *)
(* The acknowledgement a tick emits                                    *)
(* ------------------------------------------------------------------ *)
\* the result of the tick that would run in the current state
TickNow(p) == tick(state[p], queues[p], now, 1, 0)

\* the seqnos of the DataAck messages a tick result emits
AckSeqnos(r) == {r.out[i].seqno : i \in {j \in 1..Len(r.out) : r.out[j].kind = "DataAck"}}

\* the tick processes Data and leaves the stream with exactly 0..n-1 received
ReceivedExactly(p, r, n) ==
    /\ state[p].phase = "Established"
    /\ ~panicked[p]
    /\ \E i \in 1..Len(state[p].incoming_queue) : state[p].incoming_queue[i].kind = "Data"
    /\ r.st.phase = "Established"
    /\ r.st.reorderer.next = n
    /\ DOMAIN r.st.reorderer.pkts = {}

\* C3: when an Established stream has received Data with the seqnos 0..n-1, in
\* any order, and ticks, the DataAck it emits carries seqno n (one more than
\* the highest seqno delivered in order).
C3_AckNamesNextExpected ==
    \A n \in 1..(MaxSeq + 1) :
        ReceivedExactly("a", TickNow("a"), n) => AckSeqnos(TickNow("a")) = {n}

(* ------------------------------------------------------------------ *)
(* connected and the first byte                                        *)
(* ------------------------------------------------------------------ *)
\* C9: for a stream built by either constructor, connected is true before any
\* byte is appended to read_stream.
C9_ConnectedBeforeFirstByte ==
    appended["a"] # <<>> => queues["a"].connected

(* ------------------------------------------------------------------ *)
(* closed, and the handle operations around it                         *)
(* ------------------------------------------------------------------ *)
\* handle h's read returns in this step, with n = 0 bytes
ReadReturnsZero(p, h) ==
    /\ handles[p][h].rd = "ready"
    /\ handles'[p][h].rd = "idle"
    /\ queues'[p].read_stream = queues[p].read_stream

\* handle h's write returns in this step
WriteReturns(p, h) ==
    /\ handles[p][h].wr = "ready"
    /\ handles'[p][h].wr = "idle"

\* C4: closed is monotonic: once true it never becomes false again.
C4_ClosedMonotonic ==
    [][queues["a"].closed => queues'["a"].closed]_vars

\* closed has been set and the stream's state has reached Closed after it
C4_ClosedAndTicked ==
    /\ queues["a"].closed
    /\ state["a"].phase = "Closed"
    /\ handles["a"][2].alive

\* C5: a write issued after closed became true fails: it appends nothing to
\* write_stream.
C5_WriteAfterClosedFails ==
    [][\A h \in HandleIds :
          (handles["a"][h].w_after_close /\ WriteReturns("a", h))
              => queues'["a"].write_stream = queues["a"].write_stream]_vars

\* C6: a read into a non-empty buffer returns 0 only when closed is true and
\* read_stream is empty, also while other clones of the handle read.
C6_ZeroReadOnlyWhenClosed ==
    [][\A h \in HandleIds :
          (handles["a"][h].rbuf > 0 /\ ReadReturnsZero("a", h))
              => (queues["a"].closed /\ queues["a"].read_stream = <<>>)]_vars

\* C7: a read issued after closed became true returns 0 bytes (or fails); it
\* hands out no data.
C7_ReadAfterClosedReturnsZero ==
    [][\A h \in HandleIds :
          (handles["a"][h].r_after_close /\ handles["a"][h].rd = "ready"
             /\ handles'["a"][h].rd = "idle")
              => queues'["a"].read_stream = queues["a"].read_stream]_vars

\* C8: when the last handle of a stream has been dropped, closed is true.
C8_LastDropCloses ==
    Alive("a") = {} => queues["a"].closed

(* ------------------------------------------------------------------ *)
(* Write backpressure                                                  *)
(* ------------------------------------------------------------------ *)
\* handle h's write future resolves in this step
WriteResumes(p, h) ==
    /\ handles[p][h].wr # "ready"
    /\ handles'[p][h].wr = "ready"

\* write_stream takes bytes only from a handle whose write future has resolved
AppendsOnlyWhenResumed(p) ==
    written'[p] # written[p] => \E h \in HandleIds : WriteReturns(p, h)

Received(p) ==
    IF appended[p] # <<>> /\ appended[p][1][1] = 0 THEN appended[p][1][2] ELSE 0

\* C2: at every moment, the bytes the reader's stream has appended to
\* read_stream are a prefix of the bytes the writer appended to write_stream,
\* whatever the pipe reorders, duplicates or drops.
C2_ReadStreamIsPrefix ==
    /\ appended["b"] # <<>> =>
          /\ Len(appended["b"]) = 1
          /\ appended["b"][1][1] = 0
          /\ appended["b"][1][2] <= written["a"]
    /\ appended["a"] = <<>>

\* the reader holds a proper, non-empty prefix while a later segment waits
C2_ProperPrefix ==
    /\ Received("b") > 0
    /\ Received("b") < written["a"]

\* the buffers the writer hands to write, in order
LosslessWrites == <<1500, 1500>>

\* the writer's byte count after each of its writes
ByteMarks == {1500, 3000}

\* the highest seqno a segment or an acknowledgement can carry: every write
\* is cut into at most two segments
LastSeqno == 2 * Len(LosslessWrites) - 1

\* The lossless pipe hands a message over unless the destination's multiplex
\* still holds a copy of it for the next tick; the message stays in the pipe.
DeliverOnce(pkt) ==
    /\ pkt \in net
    /\ ~panicked[pkt.dst]
    /\ \A i \in 1..Len(state[pkt.dst].incoming_queue) :
          state[pkt.dst].incoming_queue[i] # pkt.msg
    /\ state' = [state EXCEPT ![pkt.dst].incoming_queue = Append(@, pkt.msg)]
    /\ UNCHANGED <<queues, handles, global_notify, net, now, panicked,
                   written, nwrites, appended>>

\* the messages two established streams exchange: kind, destination
Exchanged == {<<"Data", "b">>, <<"DataAck", "a">>}

\* the pipe hands over the message of kind km[1] and seqno n bound for km[2]
DeliverOne(km, n) ==
    \E pkt \in net :
        /\ pkt.msg.kind = km[1]
        /\ pkt.dst = km[2]
        /\ pkt.msg.seqno = n
        /\ DeliverOnce(pkt)

\* The writer issues its writes one after the other; both streams tick; the
\* pipe hands messages over.  No timer fires: nothing is lost, and the exchange
\* does not wait for a retransmission.
NextLossless ==
    \/ /\ nwrites["a"] < Len(LosslessWrites)
       /\ handles["a"][1].wr = "idle"
       /\ PollWrite("a", 1, LosslessWrites[nwrites["a"] + 1])
    \/ PollWriteReady("a", 1)
    \/ \E p \in Peers, rto \in RtoValues : TickSend(p, rto, 0)
    \/ \E km \in Exchanged, n \in 0..LastSeqno : DeliverOne(km, n)

\* a tick of p would change the state: ENABLED <<TickSend(p, rto, 0)>>_vars
TickEnabled(p) ==
    /\ ~panicked[p]
    /\ \E rto \in RtoValues :
          LET r == tick(state[p], queues[p], now, rto, 0)
          IN \/ r.st # state[p]
             \/ r.qs # queues[p]
             \/ r.panic
             \/ r.appended # <<>>
             \/ r.notified /\ notify_all(handles[p]) # handles[p]
             \/ \E i \in 1..Len(r.out) : Packet(Other(p), r.out[i]) \notin net

\* ticks keep being run: weak fairness of the tick of p
TickFair(p) ==
    \/ []<>(~TickEnabled(p))
    \/ []<><<\E rto \in RtoValues : TickSend(p, rto, 0)>>_vars

\* Ticks keep being run, and the pipe loses nothing: every message it holds is
\* handed over, again and again.
Lossless ==
    /\ \A p \in Peers : TickFair(p)
    /\ \A km \in Exchanged, n \in 0..LastSeqno : WF_vars(DeliverOne(km, n))

SpecLossless == InitWith({"Established"}) /\ [][NextLossless]_vars /\ Lossless

\* C1: over a pipe that reorders and duplicates but loses nothing, while ticks
\* keep being run, every byte the writer appended to write_stream eventually
\* is appended to the reader's read_stream.
C1_EveryByteArrives ==
    \A n \in ByteMarks : (written["a"] >= n) ~> (Received("b") >= n)

\* all the bytes of the writer have arrived
C1_AllArrived ==
    /\ nwrites["a"] = Len(LosslessWrites)
    /\ written["a"] \in ByteMarks
    /\ Received("b") = written["a"]
    /\ state["a"].next_write_seqno > 2

(* ------------------------------------------------------------------ *)
(* A suspended write and the close of the stream                       *)
(* ------------------------------------------------------------------ *)
\* Writers fill write_stream past the cap, the stream is closed by a handle
\* or reset by the peer, and the multiplex keeps ticking.
NextClosedWriter ==
    \/ \E h, h2 \in HandleIds : Clone("a", h, h2)
    \/ \E h \in HandleIds, n \in WriteSizes :
          WriteBudget("a", h, MaxWrites + 2) /\ PollWrite("a", h, n)
    \/ \E h \in HandleIds : PollWriteReady("a", h)
    \/ \E h \in HandleIds : Shutdown("a", h)
    \/ \E h \in HandleIds : PollClose("a", h)
    \/ Inject("a", Rel("Rst", StreamId, 0, EmptyBytes))
    \/ \E rto \in RtoValues : TickSend("a", rto, 0)

\* a notified writer is polled again, a resolved write takes the lock, and
\* the multiplex keeps ticking
FairClosedWriter ==
    /\ WF_vars(\E h \in HandleIds, n \in WriteSizes :
                  handles["a"][h].wr = "woken" /\ PollWrite("a", h, n))
    /\ WF_vars(\E h \in HandleIds : PollWriteReady("a", h))
    /\ TickFair("a")

SpecClosedWriter ==
    InitWith({"Established"}) /\ [][NextClosedWriter]_vars /\ FairClosedWriter

\* C11: a handle write that is suspended on backpressure eventually completes
\* once the stream is closed, even if write_stream is never drained below the
\* cap.
C11_SuspendedWriteCompletesOnClose ==
    \A h \in HandleIds :
        (handles["a"][h].wr \in {"pending", "woken"} /\ queues["a"].closed)
            ~> (handles["a"][h].wr = "idle")

(* ------------------------------------------------------------------ *)
(* What a close does                                                   *)
(* ------------------------------------------------------------------ *)
\* a handle sets closed in this step (the state of the stream is untouched)
HandleCloses(p) ==
    /\ ~queues[p].closed
    /\ queues'[p].closed
    /\ state'[p] = state[p]

\* no reader or writer is left waiting on the ready event without a notification
NoneLeftWaiting(hs) ==
    \A h \in HandleIds : hs[h].rd # "pending" /\ hs[h].wr # "pending"

\* C12: a close through either entry point (shutdown, poll_close) sets closed,
\* signals the multiplex and notifies every waiter on the ready event in the
\* same step, so a reader suspended on another clone is woken by the close.
C12_CloseNotifiesWaiters ==
    [][HandleCloses("a") =>
          /\ global_notify'["a"]
          /\ NoneLeftWaiting(handles'["a"])]_vars

(* ------------------------------------------------------------------ *)
(* What one tick does, by phase                                        *)
(* ------------------------------------------------------------------ *)
\* the incoming_queue of p holds a message of this kind
Queued(p, kind) ==
    \E i \in 1..Len(state[p].incoming_queue) : state[p].incoming_queue[i].kind = kind

\* C14: for a stream in SynSent or Established, once an Rst has been injected
\* and the stream has ticked, the phase is Closed.
C14_RstClosesStream ==
    (/\ ~panicked["a"]
     /\ state["a"].phase \in {"SynSent", "Established"}
     /\ Queued("a", "Rst"))
        => TickNow("a").st.phase = "Closed"

\* C15: if closed is true when tick is called in Pending, SynSent or
\* Established, the phase is Closed when that tick returns.
C15_ClosedFlagClosesPhase ==
    (/\ ~panicked["a"]
     /\ queues["a"].closed
     /\ state["a"].phase \in {"Pending", "SynSent", "Established"})
        => TickNow("a").st.phase = "Closed"

\* C16: when the tick that drains an Rst on an Established stream returns,
\* the phase is Closed, closed is true and the handle waiters have been
\* notified.
C16_RstTickClosesAndNotifies ==
    (/\ ~panicked["a"]
     /\ state["a"].phase = "Established"
     /\ Queued("a", "Rst"))
        => /\ TickNow("a").st.phase = "Closed"
           /\ TickNow("a").qs.closed
           /\ TickNow("a").notified

\* C18: in phase Closed each tick emits one Rst (own stream_id, seqno 0, empty
\* payload) per message drained from incoming_queue and nothing else, sets
\* closed, notifies the handle waiters, empties incoming_queue and stays Closed.
C18_ClosedTickAnswersWithRst ==
    (~panicked["a"] /\ state["a"].phase = "Closed") =>
        /\ Len(TickNow("a").out) = Len(state["a"].incoming_queue)
        /\ \A i \in 1..Len(TickNow("a").out) :
              TickNow("a").out[i] = Rel("Rst", state["a"].stream_id, 0, EmptyBytes)
        /\ TickNow("a").qs.closed
        /\ TickNow("a").notified
        /\ TickNow("a").st.incoming_queue = <<>>
        /\ TickNow("a").st.phase = "Closed"

\* a Closed stream that has ticked (closed is set) holds two more messages
C18_ClosedWithBatch ==
    /\ state["a"].phase = "Closed"
    /\ queues["a"].closed
    /\ Len(state["a"].incoming_queue) = 2

\* C20: read_until never decreases across ticks, and the DataAck a tick emits
\* carries the read_until the tick leaves, so the seqnos of successive DataAcks
\* never decrease, whatever the order and duplication of the injected Data.
C20_ReadUntilMonotonic ==
    ~panicked["a"] =>
        /\ TickNow("a").st.read_until >= state["a"].read_until
        /\ \A n \in AckSeqnos(TickNow("a")) : n = TickNow("a").st.read_until

\* a Data below read_until (a duplicate) is waiting for the next tick
C20_DuplicateQueued ==
    /\ state["a"].phase = "Established"
    /\ state["a"].read_until > 0
    /\ \E i \in 1..Len(state["a"].incoming_queue) :
          /\ state["a"].incoming_queue[i].kind = "Data"
          /\ state["a"].incoming_queue[i].seqno < state["a"].read_until

(* ------------------------------------------------------------------ *)
(* Unreliable datagrams                                                *)
(* ------------------------------------------------------------------ *)
\* handle h runs send_urel in this step
SendUrelRuns(p, h) == handles'[p][h].urel # handles[p][h].urel

\* C17: send_urel on an open stream completes: it enqueues the datagram,
\* signals the multiplex and returns (it is not left suspended).
C17_SendUrelCompletes ==
    [][\A h \in HandleIds :
          (SendUrelRuns("a", h) /\ ~queues["a"].closed)
              => /\ global_notify'["a"]
                 /\ handles'["a"][h].urel # "pending"]_vars

(* ------------------------------------------------------------------ *)
(* An established stream whose reader has fallen behind: read_stream   *)
(* holds more than the cap                                             *)
(* ------------------------------------------------------------------ *)
\* the number of full segments that take read_stream past the cap
Backlog == ReadCap \div MSS + 1

\* An established stream after the peer's segments 0 .. n - 1 (n > 0) were
\* injected and ticked in while nobody read: the reorderer's cursor is at n,
\* read_until is the last seqno taken, read_stream holds the n segments.
Backlogged(n) ==
    [st |-> [new_established(StreamId, AdditionalBytes) EXCEPT
                !.reorderer.next = n,
                !.read_until = n - 1],
     qs |-> [StreamQueuesDefault EXCEPT !.read_stream = << <<0, n * MSS>> >>],
     appended |-> << <<0, n * MSS>> >>]

InitReadCap ==
    /\ state = [p \in Peers |->
                  IF p = "a" THEN Backlogged(Backlog).st
                  ELSE new_established(StreamId, AdditionalBytes)]
    /\ queues = [p \in Peers |->
                   IF p = "a" THEN Backlogged(Backlog).qs ELSE StreamQueuesDefault]
    /\ handles = [p \in Peers |-> [h \in HandleIds |->
                                     IF h = 1 THEN StreamNew ELSE NoHandle]]
    /\ global_notify = [p \in Peers |-> FALSE]
    /\ net = {}
    /\ now = 0
    /\ panicked = [p \in Peers |-> FALSE]
    /\ written = [p \in Peers |-> 0]
    /\ nwrites = [p \in Peers |-> 0]
    /\ appended = [p \in Peers |-> IF p = "a" THEN Backlogged(Backlog).appended ELSE <<>>]

\* what the peer sends here: a repeated Syn, a reset, the next segment, and
\* the acknowledgement of the first segment written
ReadCapMessages ==
    {Rel("Syn", StreamId, 0, AdditionalBytes),
     Rel("Rst", StreamId, 0, EmptyBytes),
     Rel("Data", StreamId, Backlog,
         SegmentBytes(Backlog)),
     Rel("DataAck", StreamId, 1, EncodedEmptyList)}

OverReadCap(qs) == BufLen(qs.read_stream) > ReadCap

\* the reader starts a read only while read_stream is over the cap
NextReadCap ==
    \/ \E msg \in ReadCapMessages : Inject("a", msg)
    \/ \E rto \in RtoValues : Tick("a", rto, 0)
    \/ (handles["a"][1].rd = "idle" => OverReadCap(queues["a"]))
          /\ PollRead("a", 1, 700)
    \/ PollReadReady("a", 1, 0)
    \/ WriteBudget("a", 1, MaxWrites) /\ PollWrite("a", 1, 1500)
    \/ PollWriteReady("a", 1)
    \/ Shutdown("a", 1)

SpecReadCap == InitReadCap /\ [][NextReadCap]_vars

\* the messages of one kind in a queue or in a tick's output, in order
SelectKind(msgs, kind) == SelectSeq(msgs, LAMBDA m : m.kind = kind)

\* the answer tick_read gives to a Syn
SynEcho(syn) == Rel("SynAck", syn.stream_id, syn.seqno, syn.payload)

\* C13: for a stream in Established, whatever the state of its queues, the
\* next tick answers every injected Syn by exactly one SynAck with the same
\* seqno and payload, and the phase remains Established.
C13_SynAlwaysEchoed ==
    (state["a"].phase = "Established" /\ ~panicked["a"])
        => LET syns == SelectKind(state["a"].incoming_queue, "Syn")
           IN /\ SelectKind(TickNow("a").out, "SynAck")
                    = [i \in 1..Len(syns) |-> SynEcho(syns[i])]
              /\ TickNow("a").st.phase = "Established"

\* C19: while read_stream holds more than 1_000_000 bytes, a tick discards
\* only Data: a drained Rst still closes the phase, every drained Syn is still
\* echoed, and a drained DataAck still acknowledges the segments below it.
C19_OnlyDataDiscardedOverCap ==
    (/\ state["a"].phase = "Established"
     /\ ~panicked["a"]
     /\ OverReadCap(queues["a"]))
        => LET q == state["a"].incoming_queue
               syns == SelectKind(q, "Syn")
           IN /\ Queued("a", "Rst") => TickNow("a").st.phase = "Closed"
              /\ SelectKind(TickNow("a").out, "SynAck")
                    = [i \in 1..Len(syns) |-> SynEcho(syns[i])]
              /\ \A i \in 1..Len(q) : \A n \in DOMAIN state["a"].inflight.segments :
                    (q[i].kind = "DataAck" /\ n < q[i].seqno)
                        => n \notin DOMAIN TickNow("a").st.inflight.segments

(* ------------------------------------------------------------------ *)
(* Inflight on its own: any sequence of its operations                 *)
(* ------------------------------------------------------------------ *)
\* the operation replaces the Inflight of p; nothing else moves
InflightStep(p, inf) ==
    /\ state' = [state EXCEPT ![p].inflight = inf]
    /\ UNCHANGED <<queues, handles, global_notify, net, now, panicked,
                   written, nwrites, appended>>

\* insert asserts that the seqno is not in segments
InflightInsert(p, seqno, rto) ==
    /\ seqno \notin DOMAIN state[p].inflight.segments
    /\ InflightStep(p, insert(state[p].inflight,
                              Rel("Data", StreamId, seqno, SegmentBytes(seqno)),
                              now, rto))

InflightMarkAcked(p, seqno) ==
    InflightStep(p, mark_acked(state[p].inflight, seqno).inf)

InflightMarkAckedLt(p, seqno) ==
    InflightStep(p, mark_acked_lt(state[p].inflight, seqno).inf)

InflightMarkLost(p, seqno) ==
    InflightStep(p, mark_lost(state[p].inflight, seqno).inf)

\* the retransmission count of a segment is bounded here
InflightRetransmit(p, seqno, rto) ==
    /\ seqno \in DOMAIN state[p].inflight.segments
          => state[p].inflight.segments[seqno].retrans < MaxRetrans
    /\ InflightStep(p, retransmit(state[p].inflight, seqno, now, rto).inf)

\* time passes between the operations
InflightClock ==
    /\ now < MaxClock
    /\ now' = now + 1
    /\ UNCHANGED <<state, queues, handles, global_notify, net, panicked,
                   written, nwrites, appended>>

\* the seqnos the operations are called with, live or absent
InflightSeqnos == {0, 1, 2}

NextInflight ==
    \/ \E seqno \in InflightSeqnos, rto \in RtoValues : InflightInsert("a", seqno, rto)
    \/ \E seqno \in InflightSeqnos : InflightMarkAcked("a", seqno)
    \/ \E seqno \in InflightSeqnos : InflightMarkAckedLt("a", seqno + 1)
    \/ \E seqno \in InflightSeqnos : InflightMarkLost("a", seqno)
    \/ \E seqno \in InflightSeqnos, rto \in RtoValues :
          InflightRetransmit("a", seqno, rto)
    \/ InflightClock

SpecInflight == InitWith({"Established"}) /\ [][NextInflight]_vars

\* the <<retrans_time, seqno>> pairs the index holds
RtoPairs(inf) ==
    UNION {{<<t, inf.rtos[t][i]>> : i \in 1..Len(inf.rtos[t])} :
              t \in DOMAIN inf.rtos}

\* the number of entries of the index, counted with repetitions
RECURSIVE RtoCount(_, _)
RtoCount(rtos, times) ==
    IF times = {} THEN 0
    ELSE LET t == SetMin(times)
         IN Len(rtos[t]) + RtoCount(rtos, times \ {t})

\* the pairs of the live segments that are not known to be lost
ExpectedRtoPairs(inf) ==
    {<<inf.segments[n].retrans_time, n>> :
        n \in {k \in DOMAIN inf.segments : ~inf.segments[k].known_lost}}

\* C21: after any sequence of Inflight operations the rtos index holds exactly
\* the pairs (retrans_time, seqno) of the live segments that are not known
\* lost, each once, with no empty bucket; so first_rto names a live segment
\* and retransmit on it returns a message.
C21_RtoIndexExact ==
    LET inf == state["a"].inflight
        f == first_rto(inf)
    IN /\ \A t \in DOMAIN inf.rtos : inf.rtos[t] # <<>>
       /\ RtoPairs(inf) = ExpectedRtoPairs(inf)
       /\ RtoCount(inf.rtos, DOMAIN inf.rtos) = Cardinality(RtoPairs(inf))
       /\ f.some => /\ f.seqno \in DOMAIN inf.segments
                    /\ retransmit(inf, f.seqno, now, 1).some

\* a segment marked lost and then retransmitted shares the index with a
\* segment that is known lost and with one that was never touched
C21_LostAndRetransmitted ==
    LET inf == state["a"].inflight
    IN \E a, b, c \in DOMAIN inf.segments :
          /\ inf.segments[a].known_lost
          /\ inf.segments[b].retrans > 0 /\ ~inf.segments[b].known_lost
          /\ inf.segments[c].retrans = 0 /\ ~inf.segments[c].known_lost

(* ------------------------------------------------------------------ *)
(* Cumulative acknowledgements                                         *)
(* ------------------------------------------------------------------ *)
\* the loop body of tick_read on a DataAck with cumulative seqno c, reached
\* with the Inflight of p as it stands
ProcessDataAck(m, c) ==
    TickReadPacket(m, Rel("DataAck", StreamId, c, EncodedEmptyList), FALSE).m

C23_OneLossPerTick ==
    \A p \in Peers :
        (state[p].phase = "Established" /\ ~panicked[p])
            => TickNow(p).losses <= 1

(* ------------------------------------------------------------------ *)
(* The handshake timer                                                 *)
(* ------------------------------------------------------------------ *)
\* C24: in SynSent with no SynAck queued, a tick before next_resend emits
\* nothing and leaves the phase and next_resend unchanged; a Syn (seqno 0,
\* payload additional_data) is emitted only by the tick that leaves Pending
\* or by a SynSent tick at a time >= next_resend, and each of these sets
\* next_resend to now + 1 s.
C24_EarlyTickHarmless ==
    LET st == state["a"]
        r == TickNow("a")
        syn == Rel("Syn", st.stream_id, 0, st.additional_data)
    IN ~panicked["a"] =>
          /\ (st.phase = "SynSent" /\ ~Queued("a", "SynAck") /\ now < st.next_resend)
                => /\ r.out = <<>>
                   /\ r.st.phase = "SynSent"
                   /\ r.st.next_resend = st.next_resend
          /\ (\E i \in 1..Len(r.out) : r.out[i].kind = "Syn")
                => /\ r.out = <<syn>>
                   /\ \/ st.phase = "Pending"
                      \/ st.phase = "SynSent" /\ now >= st.next_resend
                   /\ r.st.phase = "SynSent"
                   /\ r.st.next_resend = now + SynResendSecs

\* the clock has advanced, a Syn has gone out at that time, and the stream is
\* to tick before the new next_resend with messages queued that are no SynAck
C24_EarlyTickAfterResend ==
    /\ state["a"].phase = "SynSent"
    /\ now > 0
    /\ now < state["a"].next_resend
    /\ state["a"].incoming_queue # <<>>
    /\ ~Queued("a", "SynAck")

(* ------------------------------------------------------------------ *)
(* ConnVars::process_one, the other DataAck handler of the source      *)
(* ------------------------------------------------------------------ *)
\* stdcode::deserialize::<Vec<Seqno>>: the one-byte encoding of the empty
\* list decodes to the empty list; zero bytes lack the length prefix and
\* the other payloads of the model are no encodings of a list
stdcode_deserialize(payload) ==
    IF payload = EncodedEmptyList
    THEN [ok |-> TRUE, seqnos |-> <<>>]
    ELSE [ok |-> FALSE, seqnos |-> <<>>]

\* the ConnVars whose inflight and cc are those of p; lost_seqnos mirrors the
\* known-lost segments, as the lost_count assertions demand
ConnVarsOf(p, closing) ==
    [inflight |-> state[p].inflight,
     cc |-> state[p].congestion,
     lost_seqnos |-> {n \in DOMAIN state[p].inflight.segments :
                         state[p].inflight.segments[n].known_lost},
     closing |-> closing]

\* ConnVars::check_closed: TRUE stands for the bail
check_closed(cv) == cv.closing /\ segments_len(cv.inflight) = 0

\* mark_acked on each seqno of the selective list, with its cc.mark_ack
RECURSIVE mark_acked_list(_, _)
mark_acked_list(cv, seqnos) ==
    IF seqnos = <<>> THEN cv
    ELSE LET r == mark_acked(cv.inflight, Head(seqnos))
         IN mark_acked_list(
              [cv EXCEPT !.lost_seqnos = @ \ {Head(seqnos)},
                         !.inflight = r.inf,
                         !.cc = IF r.found THEN HighspeedMarkAck(@) ELSE @],
              Tail(seqnos))

\* the NewPkt(DataAck) arm of ConnVars::process_one; err = TRUE stands for
\* the Err the function returns ("Errors out when the thing should be closed")
process_one_data_ack(cv, msg) ==
    LET d == stdcode_deserialize(msg.payload)
        r == mark_acked_lt(cv.inflight, msg.seqno)
        cum == [cv EXCEPT !.inflight = r.inf,
                          !.cc = Iterate(HighspeedMarkAck, @, r.sum),
                          !.lost_seqnos = {v \in @ : v >= msg.seqno}]
        done == mark_acked_list(cum, d.seqnos)
    IN IF ~d.ok THEN [cv |-> cv, err |-> TRUE]
       ELSE [cv |-> done, err |-> check_closed(done)]

\* C25: a DataAck whose payload does not decode as a list of seqnos is still
\* applied as a cumulative ack (every inflight seqno below its seqno field
\* is acked) and does not close, reset or error the stream, in both DataAck
\* handlers: StreamState::tick_read and ConnVars::process_one.
C25_UndecodableAckStillApplied ==
    \A c \in 0..(MaxSeq + 1) :
        LET bad == Rel("DataAck", StreamId, c, EmptyBytes)
            acked == mark_acked_lt(state["a"].inflight, c).inf
            t == TickReadPacket(Machine(state["a"], queues["a"]), bad, FALSE).m
            p == process_one_data_ack(ConnVarsOf("a", FALSE), bad)
        IN (state["a"].phase = "Established" /\ ~OverReadCap(queues["a"]))
              => /\ t.st.inflight = acked
                 /\ t.st.phase = "Established"
                 /\ ~t.panic
                 /\ p.cv.inflight = acked
                 /\ ~p.err

(* ------------------------------------------------------------------ *)
(* The order of the phases                                             *)
(* ------------------------------------------------------------------ *)
\* the position of a phase in the declaration order of enum Phase
PhaseRank(phase) ==
    CASE phase = "Pending" -> 0
      [] phase = "SynSent" -> 1
      [] phase = "Established" -> 2
      [] phase = "Closed" -> 3

\* C26: the phase only moves forward in the order Pending, SynSent,
\* Established, Closed: no tick and no injected message moves a stream to an
\* earlier phase; Closed is absorbing: every tick of a Closed stream leaves
\* the phase Closed and emits no Syn, SynAck, Data or DataAck.
C26_PhaseOnlyForward ==
    /\ [][PhaseRank(state'["a"].phase) >= PhaseRank(state["a"].phase)]_vars
    /\ [](state["a"].phase = "Closed"
            => /\ TickNow("a").st.phase = "Closed"
               /\ \A i \in 1..Len(TickNow("a").out) :
                     TickNow("a").out[i].kind = "Rst")

\* a Closed stream with a Syn and a Data of the peer waiting for its tick
C26_ClosedWithTraffic ==
    /\ state["a"].phase = "Closed"
    /\ Queued("a", "Syn")
    /\ Queued("a", "Data")

(* ------------------------------------------------------------------ *)
(* After the transfer                                                  *)
(* ------------------------------------------------------------------ *)
\* the writer has issued its last write, and the peer's read_stream has been
\* given every byte written
TransferDone ==
    /\ nwrites["a"] = Len(LosslessWrites)
    /\ handles["a"][1].wr = "idle"
    /\ Received("b") = written["a"]

\* C27: between two Established peers over a pipe that delivers every
\* message, once the writer has stopped writing and all written bytes have
\* reached the peer's read_stream, the writer's inflight eventually becomes
\* empty (unacked() = 0), so that nothing is left to retransmit.
C27_SenderQuiesces ==
    TransferDone ~> (segments_len(state["a"].inflight) = 0)

(* ------------------------------------------------------------------ *)
(* Two streams, a pipe that delivers every message once, and closes    *)
(* ------------------------------------------------------------------ *)
\* Here the pipe holds <<packet, k>> for the k-th copy in flight of a packet.
Copies(n, pkt) == Cardinality({c \in n : c[1] = pkt})

RECURSIVE NetSend(_, _, _)
NetSend(n, dst, out) ==
    IF out = <<>> THEN n
    ELSE LET pkt == Packet(dst, Head(out))
         IN NetSend(n \cup {<<pkt, Copies(n, pkt) + 1>>}, dst, Tail(out))

\* a tick whose outgoing_callback hands every message to the pipe
TickSendAll(p, rto, cut) ==
    LET r == tick(state[p], queues[p], now, rto, cut)
    IN /\ TickStep(p, r)
       /\ net' = NetSend(net, Other(p), r.out)

\* the pipe hands one copy of pkt to the multiplex of its destination
DeliverCopy(pkt) ==
    /\ Copies(net, pkt) > 0
    /\ ~panicked[pkt.dst]
    /\ net' = net \ {<<pkt, Copies(net, pkt)>>}
    /\ state' = [state EXCEPT ![pkt.dst].incoming_queue = Append(@, pkt.msg)]
    /\ UNCHANGED <<queues, handles, global_notify, now, panicked,
                   written, nwrites, appended>>

\* the single write of the scenario: more than the first window takes
CloseWrite == 3 * MSS

\* what the two streams can send each other here: kind, destination, seqno
ClosePackets ==
    {Packet("b", Rel("Data", StreamId, n, SegmentBytes(n))) : n \in 0..2}
    \cup {Packet("a", Rel("DataAck", StreamId, n, EncodedEmptyList)) : n \in 0..2}
    \cup {Packet(p, Rel("Rst", StreamId, 0, EmptyBytes)) : p \in Peers}

\* "a" writes once and closes, by shutdown or poll_close, writing nothing
\* after that; "b" only reads; both tick; the pipe delivers.
NextClose ==
    \/ /\ nwrites["a"] = 0
       /\ ~queues["a"].closed
       /\ PollWrite("a", 1, CloseWrite)
    \/ PollWriteReady("a", 1)
    \/ Shutdown("a", 1)
    \/ PollClose("a", 1)
    \/ PollRead("b", 1, CloseWrite)
    \/ PollReadReady("b", 1, 0)
    \/ \E p \in Peers, rto \in RtoValues : TickSendAll(p, rto, 0)
    \/ \E pkt \in ClosePackets : DeliverCopy(pkt)

\* a tick of p would change something: ENABLED <<TickSendAll(p, rto, 0)>>_vars
TickAllEnabled(p) ==
    /\ ~panicked[p]
    /\ \E rto \in RtoValues :
          LET r == tick(state[p], queues[p], now, rto, 0)
          IN \/ r.st # state[p]
             \/ r.qs # queues[p]
             \/ r.panic
             \/ r.appended # <<>>
             \/ r.notified /\ notify_all(handles[p]) # handles[p]
             \/ r.out # <<>>

\* Ticks keep being run, every message in the pipe is delivered, and the
\* reader of "b" polls again when woken and takes what its read found.
FairClose ==
    /\ \A p \in Peers :
          \/ []<>(~TickAllEnabled(p))
          \/ []<><<\E rto \in RtoValues : TickSendAll(p, rto, 0)>>_vars
    /\ \A pkt \in ClosePackets : WF_vars(DeliverCopy(pkt))
    /\ WF_vars(handles["b"][1].rd = "woken" /\ PollRead("b", 1, CloseWrite))
    /\ WF_vars(PollReadReady("b", 1, 0))

SpecClose == InitWith({"Established"}) /\ [][NextClose]_vars /\ FairClose

\* C28: bytes accepted by a successful handle write before the handle is
\* closed are not abandoned by the close: under a pipe that delivers every
\* message they eventually reach the peer's read_stream.
C28_WrittenBytesSurviveClose ==
    (written["a"] = CloseWrite) ~> (Received("b") = CloseWrite)

\* C29: a local close propagates to the peer: after the handle of "a" is
\* closed and its state has ticked, the peer "b", Established and only
\* reading, eventually has closed set and its suspended read returns (0).
C29_ClosePropagates ==
    (/\ queues["a"].closed
     /\ state["a"].phase = "Closed"
     /\ handles["b"][1].rd = "pending")
        ~> (queues["b"].closed /\ handles["b"][1].rd # "pending")

\* nothing is in the pipe and nothing waits for a tick: no side has a message
\* to answer
Quiet ==
    /\ net = {}
    /\ \A p \in Peers : state[p].incoming_queue = <<>>

\* C30: when both peers are in phase Closed and the pipe delivers every
\* message, the exchange of Rst messages between them eventually stops:
\* from some point on neither side emits a message.
C30_RstExchangeStops ==
    (\A p \in Peers : state[p].phase = "Closed") ~> []Quiet

(* ------------------------------------------------------------------ *)
(* The retransmission loop                                             *)
(* ------------------------------------------------------------------ *)
\* the stream of p as the write half of its tick finds it: after tick_read
BeforeWrite(p) == tick_read(Machine(state[p], queues[p]), now)

\* the segments whose retransmission time has come when the write half starts
Expired(p) ==
    LET inf == BeforeWrite(p).st.inflight
    IN {n \in DOMAIN inf.segments : inf.segments[n].retrans_time <= now}

\* how often the tick result r hands the Data segment n to outgoing_callback
TimesSent(r, n) ==
    Cardinality({i \in 1..Len(r.out) :
                    r.out[i].kind = "Data" /\ r.out[i].seqno = n})

\* C31: the retransmission loop of a tick's write half terminates: every
\* segment whose retrans_time is <= now is retransmitted exactly once in that
\* tick (and no other old segment is), no entry of the RTO index has a time
\* <= now when the loop ends, and the deadline an Established tick returns is
\* later than now.
C31_RetransmissionLoopEnds ==
    \A p \in Peers :
        (state[p].phase = "Established" /\ ~panicked[p])
            => LET r == TickNow(p)
               IN /\ ~r.panic
                  /\ \A n \in 0..(state[p].next_write_seqno - 1) :
                        TimesSent(r, n) = IF n \in Expired(p) THEN 1 ELSE 0
                  /\ \A t \in DOMAIN r.st.inflight.rtos : t > now
                  /\ r.deadline > now

\* two segments are due at once, and the tick is to run
C31_BurstExpired ==
    /\ state["a"].phase = "Established"
    /\ ~panicked["a"]
    /\ Cardinality(Expired("a")) >= 2

(* ------------------------------------------------------------------ *)
(* The congestion window and new segments                              *)
(* ------------------------------------------------------------------ *)
\* the seqnos of the new Data segments in the tick result r of p
NewData(p, r) ==
    {r.out[i].seqno : i \in {j \in 1..Len(r.out) :
        r.out[j].kind = "Data" /\ r.out[j].seqno >= state[p].next_write_seqno}}

\* Inflight::unacked: the number of segments in flight
unacked(inf) == Cardinality(DOMAIN inf.segments)

\* after a write half that emitted new Data, the span of the seqnos in flight
\* is at most the cwnd read at its start, and unacked() at most cwnd + 1
WindowKept(p, r) ==
    LET cwnd == Cwnd(BeforeWrite(p).st.congestion)
    IN NewData(p, r) # {}
          => /\ last_minus_first(r.st.inflight) <= cwnd
             /\ unacked(r.st.inflight) <= cwnd + 1

\* C32 as written: whenever the write half emits a new Data segment,
\* afterwards last_minus_first() <= cwnd and unacked() <= cwnd + 1 for the
\* cwnd read at the start of that write half; and no new Data is emitted in a
\* tick that starts with last_minus_first() >= cwnd.
C32_WindowGatesTick ==
    \A p \in Peers :
        (state[p].phase = "Established" /\ ~panicked[p])
            => /\ WindowKept(p, TickNow(p))
               /\ last_minus_first(state[p].inflight) >= Cwnd(state[p].congestion)
                     => NewData(p, TickNow(p)) = {}

\* C32, amended: the same, with the gate taken where the code tests it: no
\* new Data is emitted in a tick whose write half starts (after the read half
\* has processed the acknowledgements) with last_minus_first() >= cwnd.
C32_WindowGatesWriteHalf ==
    \A p \in Peers :
        (state[p].phase = "Established" /\ ~panicked[p])
            => /\ WindowKept(p, TickNow(p))
               /\ last_minus_first(BeforeWrite(p).st.inflight)
                        >= Cwnd(BeforeWrite(p).st.congestion)
                     => NewData(p, TickNow(p)) = {}

\* the tick is to emit new Data and to stop at the window with bytes left
C32_WindowFilled ==
    LET r == TickNow("a")
    IN /\ state["a"].phase = "Established"
       /\ NewData("a", r) # {}
       /\ r.qs.write_stream # <<>>
       /\ last_minus_first(r.st.inflight) = Cwnd(BeforeWrite("a").st.congestion)

====
